---------------------------- MODULE Spec2Model ----------------------------
(***************************************************************************)
(* dur2work.py: one run of the script asks the directions service for the  *)
(* travel duration between two addresses and writes the answer to a SQLite *)
(* database (tables route and track_duration).  The model follows the      *)
(* script statement by statement; several runs (operating-system           *)
(* processes started by cron) work on the one database file.               *)
(***************************************************************************)
EXTENDS Integers, Sequences, FiniteSets, TLC

\* Number of runs of the script that are started in one behaviour.
MaxRuns == 3

\* The two process slots: at most two runs are alive at the same time.
Procs == {1, 2}

(***************************************************************************)
(* Strings.  An address is a sequence of one-character strings, so that    *)
(* the statements the script builds with str.format can be scanned         *)
(* character by character the way SQLite's tokenizer scans them.           *)
(***************************************************************************)
DQ == "\""
SQ == "'"

Upper == <<"A", "B", "H", "O", "S", "T", "R">>
Lower == <<"a", "b", "h", "o", "s", "t", "r">>

\* COLLATE NOCASE: the upper case ASCII letters are folded to lower case.
FoldChar(c) ==
    IF \E i \in 1..Len(Upper) : Upper[i] = c
    THEN Lower[CHOOSE i \in 1..Len(Upper) : Upper[i] = c]
    ELSE c

FoldCase(s) == [i \in 1..Len(s) |-> FoldChar(s[i])]

\* The (start, destination) arguments the runs are started with.
Pairs ==
    { << <<"a">>, <<"b">> >>,
      << <<"A">>, <<"B">> >>,
      << <<"b">>, <<"a">> >>,
      << <<"o", SQ, SQ, "h">>, <<"b">> >>,
      << <<"o", SQ, "h">>, <<"b">> >> }

\* Traffic-free durations and traffic-aware durations.
Durations == {1500, 1600}
TrafficDurations == {1900}

\* The traffic-free duration the service reports at departure time t: it
\* changes from one reading of the clock to the next.
DurationAt(t) == IF t % 2 = 1 THEN 1500 ELSE 1600

\* What gmaps.directions can answer at departure time t: no route, or one
\* route whose first leg carries a duration and, unless the service leaves
\* it out, a duration_in_traffic.
Results(t) ==
    { <<>>, <<[duration |-> DurationAt(t)]>> }
    \cup { <<[duration |-> DurationAt(t), duration_in_traffic |-> dit]>> :
              dit \in TrafficDurations }

\* The numbers that occur in statements; str(n) is ToString(n).
Numbers == (0..MaxRuns) \cup Durations \cup TrafficDurations

\* The number a numeric literal of a statement denotes.
ParseNumber(s) == CHOOSE n \in Numbers : ToString(n) = s

(***************************************************************************)
(* The statements as the script formats them: the fixed text is kept in    *)
(* fragments, the arguments are spliced in unescaped between the quotes.   *)
(***************************************************************************)
SelWhereStart == "SELECT track_id FROM route WHERE start = "
SelAndDestination == " COLLATE NOCASE AND destination = "
SelEnd == " COLLATE NOCASE"

SelectStatement(s, d) ==
    <<SelWhereStart, DQ>> \o s \o <<DQ, SelAndDestination, DQ>> \o d
        \o <<DQ, SelEnd>>

InsRoute == "INSERT INTO route VALUES ("
InsTrack == "INSERT INTO track_duration VALUES ("
Comma == ", "
Close == ")"

InsertRouteStatement(id, s, d, dur) ==
    <<InsRoute, ToString(id), Comma, SQ>> \o s \o <<SQ, Comma, SQ>> \o d
        \o <<SQ, Comma, ToString(dur), Close>>

InsertTrackStatement(id, t, dit) ==
    <<InsTrack, ToString(id), Comma, SQ, ToString(t), SQ, Comma,
      ToString(dit), Close>>

(***************************************************************************)
(* SQLite's tokenizer on such a statement, for the quote character q: a    *)
(* quote opens a literal, a doubled quote inside a literal is one quote    *)
(* character of it, a single quote closes it.  Everything outside a        *)
(* literal is a token of its own.  A literal left open at the end of the   *)
(* statement is an error.                                                  *)
(***************************************************************************)
LitTok(text) == [lit |-> TRUE, text |-> text]
RawTok(c) == [lit |-> FALSE, text |-> <<c>>]
LexError == <<[lit |-> FALSE, text |-> <<"unterminated literal">>]>>

RECURSIVE LexFrom(_, _, _, _, _, _)
LexFrom(stmt, q, i, inLit, cur, out) ==
    IF i > Len(stmt)
    THEN IF inLit THEN LexError ELSE out
    ELSE IF inLit
         THEN IF stmt[i] = q
              THEN IF i < Len(stmt) /\ stmt[i + 1] = q
                   THEN LexFrom(stmt, q, i + 2, TRUE, Append(cur, q), out)
                   ELSE LexFrom(stmt, q, i + 1, FALSE, <<>>,
                                Append(out, LitTok(cur)))
              ELSE LexFrom(stmt, q, i + 1, TRUE, Append(cur, stmt[i]), out)
         ELSE IF stmt[i] = q
              THEN LexFrom(stmt, q, i + 1, TRUE, <<>>, out)
              ELSE LexFrom(stmt, q, i + 1, FALSE, <<>>,
                           Append(out, RawTok(stmt[i])))

Lex(stmt, q) == LexFrom(stmt, q, 1, FALSE, <<>>, <<>>)

\* The shape of a token sequence: "L" for a literal, the text otherwise.
Shape(toks) ==
    [i \in 1..Len(toks) |-> IF toks[i].lit THEN "L" ELSE toks[i].text[1]]

\* The literals of a token sequence, in order.
Literals(toks) == SelectSeq(toks, LAMBDA t : t.lit)


(***************************************************************************)
(* Evaluation of the statements by SQLite.                                 *)
(***************************************************************************)
\* The columns of table route, and the names SQLite gives the rowid.
ColTrackId == <<"t", "r", "a", "c", "k", "_", "i", "d">>
ColStart == <<"s", "t", "a", "r", "t">>
ColDestination == <<"d", "e", "s", "t", "i", "n", "a", "t", "i", "o", "n">>
ColDuration == <<"d", "u", "r", "a", "t", "i", "o", "n">>
RowidNames == { <<"r", "o", "w", "i", "d">>, <<"o", "i", "d">>,
                <<"_", "r", "o", "w", "i", "d", "_">> }

\* A numeric operand; it is equal to no text made of letters and quotes.
NumericOperand == <<"numeric">>

\* A double-quoted token is an identifier when it names a column (names are
\* matched ignoring case) and a string literal otherwise.
Operand(text, row) ==
    LET name == FoldCase(text) IN
    IF name = ColStart THEN row.start
    ELSE IF name = ColDestination THEN row.destination
    ELSE IF name \in {ColTrackId, ColDuration} \cup RowidNames
         THEN NumericOperand
         ELSE text

\* The shapes of the SELECT the parser accepts: both comparisons, or, when
\* the first literal has swallowed the text between the arguments, one.
SelectShapes ==
    { <<SelWhereStart, "L", SelAndDestination, "L", SelEnd>>,
      <<SelWhereStart, "L", SelEnd>> }

SelectParses(stmt) == Shape(Lex(stmt, DQ)) \in SelectShapes

\* Mutant of WhereHolds: the comparisons are made without COLLATE NOCASE.
WhereHoldsBinary(stmt, row) ==
    LET lits == Literals(Lex(stmt, DQ)) IN
    /\ row.start = Operand(lits[1].text, row)
    /\ Len(lits) = 2 => row.destination = Operand(lits[2].text, row)

\* The WHERE clause of the SELECT on one row.
WhereHolds(stmt, row) ==
    LET lits == Literals(Lex(stmt, DQ)) IN
    /\ FoldCase(row.start) = FoldCase(Operand(lits[1].text, row))
    /\ Len(lits) = 2 =>
          FoldCase(row.destination) = FoldCase(Operand(lits[2].text, row))

\* fetchall() of the SELECT: the track_ids of the matching rows, in the
\* order of the table.
RECURSIVE FetchIds(_, _)
FetchIds(stmt, table) ==
    IF table = <<>> THEN <<>>
    ELSE (IF WhereHolds(stmt, Head(table))
          THEN <<Head(table).track_id>> ELSE <<>>)
         \o FetchIds(stmt, Tail(table))

\* SELECT MAX(track_id): -1 stands for the None of an empty table.
RECURSIVE MaxTrackId(_)
MaxTrackId(table) ==
    IF table = <<>> THEN -1
    ELSE LET m == MaxTrackId(Tail(table)) IN
         IF Head(table).track_id > m THEN Head(table).track_id ELSE m

\* The INSERT into route parses when it supplies the four values.
InsertRouteParses(stmt) ==
    LET shape == Shape(Lex(stmt, SQ)) IN
    /\ Len(shape) = 9
    /\ shape[1] = InsRoute /\ shape[3] = Comma /\ shape[4] = "L"
    /\ shape[5] = Comma /\ shape[6] = "L" /\ shape[7] = Comma
    /\ shape[9] = Close
    /\ \E n \in Numbers : ToString(n) = shape[2]
    /\ \E n \in Numbers : ToString(n) = shape[8]

\* The row the INSERT into route stores.
RouteRow(stmt) ==
    LET toks == Lex(stmt, SQ) IN
    [track_id |-> ParseNumber(toks[2].text[1]),
     start |-> toks[4].text,
     destination |-> toks[6].text,
     duration |-> ParseNumber(toks[8].text[1])]

\* The row the INSERT into track_duration stores (the quoted time is
\* converted to a number by the column's REAL affinity).
TrackRow(stmt) ==
    LET toks == Lex(stmt, SQ) IN
    [track_id |-> ParseNumber(toks[2].text[1]),
     time |-> ParseNumber(toks[4].text[1]),
     duration_in_traffic |-> ParseNumber(toks[6].text[1])]

\* Mutant of PrimaryKeyFree: track_id is declared without PRIMARY KEY.
NoPrimaryKey(table, id) == TRUE

\* PRIMARY KEY: no two rows of route have the same track_id.
PrimaryKeyFree(table, id) == \A i \in 1..Len(table) : table[i].track_id # id


(***************************************************************************)
(* State.  The database file: the committed rows of the two tables, in     *)
(* rowid order, the tables that exist, and the connection that holds the   *)
(* write lock (0: none).  Per process slot: the position in the script,    *)
(* the script's variables, the connection's open transaction, and what the *)
(* last run of the slot logged when it ended (err).  A process that has    *)
(* ended has no variables: they are back at their initial values.          *)
(* before and recorded are history variables: the database as the run      *)
(* found it, and the arguments (letter case folded) and track_id of every  *)
(* sample committed.  overlapped tells whether a run has been started      *)
(* while another run was alive.                                            *)
(***************************************************************************)
VARIABLES route, track_duration, schema, writer,
          pc, start, destination, res, curr_time, duration,
          duration_in_traffic, ids_known_tracks, track_id, txn, err,
          runs, before, recorded, overlapped

vars == <<route, track_duration, schema, writer,
          pc, start, destination, res, curr_time, duration,
          duration_in_traffic, ids_known_tracks, track_id, txn, err,
          runs, before, recorded, overlapped>>

Tables == {"route", "track_duration"}
NoTxn == [route |-> <<>>, track_duration |-> <<>>]
EmptyDatabase == [route |-> <<>>, track_duration |-> <<>>, schema |-> {}]
Database == [route |-> route, track_duration |-> track_duration,
             schema |-> schema]

Terminated(p) == pc[p] \in {"idle", "done", "failed"}
Active(p) == ~Terminated(p)

Init ==
    /\ route = <<>>
    /\ track_duration = <<>>
    /\ schema = {}
    /\ writer = 0
    /\ pc = [p \in Procs |-> "idle"]
    /\ start = [p \in Procs |-> <<>>]
    /\ destination = [p \in Procs |-> <<>>]
    /\ res = [p \in Procs |-> <<>>]
    /\ curr_time = [p \in Procs |-> 0]
    /\ duration = [p \in Procs |-> 0]
    /\ duration_in_traffic = [p \in Procs |-> 0]
    /\ ids_known_tracks = [p \in Procs |-> <<>>]
    /\ track_id = [p \in Procs |-> -1]
    /\ txn = [p \in Procs |-> NoTxn]
    /\ err = [p \in Procs |-> ""]
    /\ runs = 0
    /\ before = [p \in Procs |-> EmptyDatabase]
    /\ recorded = {}
    /\ overlapped = FALSE

\* The process is gone: its variables with it.
ProcessEnds(p) ==
    /\ start' = [start EXCEPT ![p] = <<>>]
    /\ destination' = [destination EXCEPT ![p] = <<>>]
    /\ res' = [res EXCEPT ![p] = <<>>]
    /\ curr_time' = [curr_time EXCEPT ![p] = 0]
    /\ duration' = [duration EXCEPT ![p] = 0]
    /\ duration_in_traffic' = [duration_in_traffic EXCEPT ![p] = 0]
    /\ ids_known_tracks' = [ids_known_tracks EXCEPT ![p] = <<>>]
    /\ track_id' = [track_id EXCEPT ![p] = -1]
    /\ before' = [before EXCEPT ![p] = EmptyDatabase]

\* The process ends at an exit() or an uncaught exception: the connection
\* is closed, which rolls its open transaction back and frees its lock.
Exit(p, why) ==
    /\ pc' = [pc EXCEPT ![p] = "failed"]
    /\ err' = [err EXCEPT ![p] = why]
    /\ txn' = [txn EXCEPT ![p] = NoTxn]
    /\ writer' = IF writer = p THEN 0 ELSE writer
    /\ ProcessEnds(p)

\* The process goes on to the statement at label next.
Goto(p, next) ==
    /\ pc' = [pc EXCEPT ![p] = next]
    /\ UNCHANGED <<err, before>>

\* cron starts the script with its two arguments (lines 79-89).  Slots are
\* filled in order: the processes are interchangeable.
Start(p) ==
    /\ Terminated(p)
    /\ \A q \in Procs : q < p => Active(q)
    /\ \E pair \in Pairs :
          /\ start' = [start EXCEPT ![p] = pair[1]]
          /\ destination' = [destination EXCEPT ![p] = pair[2]]
    /\ pc' = [pc EXCEPT ![p] = "key"]
    /\ err' = [err EXCEPT ![p] = ""]
    /\ runs' = runs + 1
    /\ before' = [before EXCEPT ![p] = Database]
    /\ UNCHANGED <<route, track_duration, schema, writer, res, curr_time,
                   duration, duration_in_traffic, ids_known_tracks,
                   track_id, txn, recorded>>

\* Mutant of ReadApiKey: the exit() after the logged error is missing, the
\* run goes on without a key.
ReadApiKeyNoExit(p) ==
    /\ pc[p] = "key"
    /\ \E outcome \in {"ok", "unreadable"} :
          /\ pc' = [pc EXCEPT ![p] = "directions"]
          /\ err' = [err EXCEPT ![p] = IF outcome = "ok" THEN "" ELSE outcome]
          /\ curr_time' = [curr_time EXCEPT ![p] = runs]
          /\ UNCHANGED <<start, destination, res, duration,
                         duration_in_traffic, ids_known_tracks,
                         track_id, txn, writer, before>>
    /\ UNCHANGED <<route, track_duration, schema, runs, recorded, overlapped>>

\* Lines 91-108: the key file is read (an exception is logged, exit), the
\* client is made, the clock is read.  The
\* clock counts the runs started so far: it ticks between two runs cron
\* starts, and two runs that overlap may read the same time.
ReadApiKey(p) ==
    /\ pc[p] = "key"
    /\ \E outcome \in {"ok", "unreadable"} :
          IF outcome = "ok"
          THEN /\ Goto(p, "directions")
               /\ curr_time' = [curr_time EXCEPT ![p] = runs]
               /\ UNCHANGED <<start, destination, res, duration,
                              duration_in_traffic, ids_known_tracks,
                              track_id, txn, writer>>
          ELSE Exit(p, outcome)
    /\ UNCHANGED <<route, track_duration, schema, runs, recorded, overlapped>>

\* Mutant of Directions: the check for an empty answer is missing.
DirectionsNoEmptyCheck(p) ==
    /\ pc[p] = "directions"
    /\ \E raised \in BOOLEAN, answer \in Results(curr_time[p]) :
          IF raised
          THEN Exit(p, "upstream")
          ELSE /\ Goto(p, "legs")
               /\ res' = [res EXCEPT ![p] = answer]
               /\ UNCHANGED <<start, destination, curr_time, duration,
                              duration_in_traffic, ids_known_tracks,
                              track_id, txn, writer>>
    /\ UNCHANGED <<route, track_duration, schema, runs, recorded, overlapped>>

\* Lines 111-128: the request; an exception and an empty answer end the run.
Directions(p) ==
    /\ pc[p] = "directions"
    /\ \E raised \in BOOLEAN, answer \in Results(curr_time[p]) :
          IF raised
          THEN Exit(p, "upstream")
          ELSE IF Len(answer) <= 0
          THEN Exit(p, "empty")
          ELSE /\ Goto(p, "legs")
               /\ res' = [res EXCEPT ![p] = answer]
               /\ UNCHANGED <<start, destination, curr_time, duration,
                              duration_in_traffic, ids_known_tracks,
                              track_id, txn, writer>>
    /\ UNCHANGED <<route, track_duration, schema, runs, recorded, overlapped>>

\* Mutant of Legs: a missing duration_in_traffic is read as a null value
\* (0 here) and the run goes on.
LegsNullable(p) ==
    /\ pc[p] = "legs"
    /\ LET legs == res[p][1] IN
       /\ Goto(p, "connect")
       /\ duration_in_traffic' =
             [duration_in_traffic EXCEPT ![p] =
                 IF "duration_in_traffic" \in DOMAIN legs
                 THEN legs.duration_in_traffic ELSE 0]
       /\ duration' = [duration EXCEPT ![p] = legs.duration]
       /\ UNCHANGED <<start, destination, res, curr_time,
                      ids_known_tracks, track_id, txn, writer>>
    /\ UNCHANGED <<route, track_duration, schema, runs, recorded, overlapped>>

\* Lines 130-133: the two values of the first leg; a leg without
\* duration_in_traffic raises KeyError, which nothing catches.
Legs(p) ==
    /\ pc[p] = "legs"
    /\ LET legs == res[p][1] IN
       IF "duration_in_traffic" \in DOMAIN legs
       THEN /\ Goto(p, "connect")
            /\ duration_in_traffic' =
                  [duration_in_traffic EXCEPT ![p] = legs.duration_in_traffic]
            /\ duration' = [duration EXCEPT ![p] = legs.duration]
            /\ UNCHANGED <<start, destination, res, curr_time,
                           ids_known_tracks, track_id, txn, writer>>
       ELSE Exit(p, "keyerror")
    /\ UNCHANGED <<route, track_duration, schema, runs, recorded, overlapped>>

\* Lines 135-142: the connection is opened; an exception is logged, exit.
Connect(p) ==
    /\ pc[p] = "connect"
    /\ \E ok \in BOOLEAN :
          IF ok
          THEN /\ Goto(p, "schema")
               /\ UNCHANGED <<start, destination, res, curr_time, duration,
                              duration_in_traffic, ids_known_tracks,
                              track_id, txn, writer>>
          ELSE Exit(p, "connect")
    /\ UNCHANGED <<route, track_duration, schema, runs, recorded, overlapped>>

\* Lines 144-155: both tables are created unless they exist.
CreateTables(p) ==
    /\ pc[p] = "schema"
    /\ schema' = schema \cup Tables
    /\ Goto(p, "select")
    /\ UNCHANGED <<route, track_duration, writer, start, destination, res,
                   curr_time, duration, duration_in_traffic,
                   ids_known_tracks, track_id, txn, runs, recorded, overlapped>>

\* Lines 157-162: the rows of route that match the arguments.  A statement
\* SQLite cannot parse raises OperationalError, which nothing catches.
SelectTracks(p) ==
    /\ pc[p] = "select"
    /\ LET stmt == SelectStatement(start[p], destination[p]) IN
       IF SelectParses(stmt)
       THEN /\ Goto(p, "branch")
            /\ ids_known_tracks' =
                  [ids_known_tracks EXCEPT ![p] = FetchIds(stmt, route)]
            /\ UNCHANGED <<start, destination, res, curr_time, duration,
                           duration_in_traffic, track_id, txn, writer>>
       ELSE Exit(p, "syntax")
    /\ UNCHANGED <<route, track_duration, schema, runs, recorded, overlapped>>

\* Mutant of SelectMax: the new id is computed and the sample is recorded
\* under it, but the row of route is not inserted.
SelectMaxSkipsInsert(p) ==
    /\ pc[p] = "branch"
    /\ Len(ids_known_tracks[p]) = 0
    /\ track_id' = [track_id EXCEPT ![p] = MaxTrackId(route) + 1]
    /\ Goto(p, "insert_track")
    /\ UNCHANGED <<route, track_duration, schema, writer, start, destination,
                   res, curr_time, duration, duration_in_traffic,
                   ids_known_tracks, txn, runs, recorded, overlapped>>

\* Mutant of SelectMax: the new id leaves a gap after the maximum id.
SelectMaxLeavesGap(p) ==
    /\ pc[p] = "branch"
    /\ Len(ids_known_tracks[p]) = 0
    /\ track_id' = [track_id EXCEPT ![p] = MaxTrackId(route) + 2]
    /\ Goto(p, "insert_route")
    /\ UNCHANGED <<route, track_duration, schema, writer, start, destination,
                   res, curr_time, duration, duration_in_traffic,
                   ids_known_tracks, txn, runs, recorded, overlapped>>

\* Lines 166-180: no row matched; the new id is the maximum id plus one.
SelectMax(p) ==
    /\ pc[p] = "branch"
    /\ Len(ids_known_tracks[p]) = 0
    /\ track_id' = [track_id EXCEPT ![p] = MaxTrackId(route) + 1]
    /\ Goto(p, "insert_route")
    /\ UNCHANGED <<route, track_duration, schema, writer, start, destination,
                   res, curr_time, duration, duration_in_traffic,
                   ids_known_tracks, txn, runs, recorded, overlapped>>

\* Mutant of KnownTrack: the first of several matching rows is taken.
KnownTrackFirstMatch(p) ==
    /\ pc[p] = "branch"
    /\ Len(ids_known_tracks[p]) >= 1
    /\ track_id' = [track_id EXCEPT ![p] = ids_known_tracks[p][1]]
    /\ Goto(p, "insert_track")
    /\ UNCHANGED <<route, track_duration, schema, writer, start, destination,
                   res, curr_time, duration, duration_in_traffic,
                   ids_known_tracks, txn, runs, recorded, overlapped>>

\* Mutant of KnownTrack: the matching row of route is brought up to date
\* with the duration the run has observed.
KnownTrackUpdates(p) ==
    /\ pc[p] = "branch"
    /\ Len(ids_known_tracks[p]) = 1
    /\ track_id' = [track_id EXCEPT ![p] = ids_known_tracks[p][1]]
    /\ route' = [i \in 1..Len(route) |->
                    IF route[i].track_id = ids_known_tracks[p][1]
                    THEN [route[i] EXCEPT !.duration = duration[p]]
                    ELSE route[i]]
    /\ Goto(p, "insert_track")
    /\ UNCHANGED <<track_duration, schema, writer, start, destination,
                   res, curr_time, duration, duration_in_traffic,
                   ids_known_tracks, txn, runs, recorded, overlapped>>

\* Lines 187-190: exactly one row matched; its id is the track_id.
KnownTrack(p) ==
    /\ pc[p] = "branch"
    /\ Len(ids_known_tracks[p]) = 1
    /\ track_id' = [track_id EXCEPT ![p] = ids_known_tracks[p][1]]
    /\ Goto(p, "insert_track")
    /\ UNCHANGED <<route, track_duration, schema, writer, start, destination,
                   res, curr_time, duration, duration_in_traffic,
                   ids_known_tracks, txn, runs, recorded, overlapped>>

\* Mutant of IntegrityExit: the error is logged, but the run goes on with
\* the last of the matching rows.
IntegrityLogsOnly(p) ==
    /\ pc[p] = "branch"
    /\ Len(ids_known_tracks[p]) > 1
    /\ pc' = [pc EXCEPT ![p] = "insert_track"]
    /\ err' = [err EXCEPT ![p] = "integrity"]
    /\ track_id' = [track_id EXCEPT ![p] =
                       ids_known_tracks[p][Len(ids_known_tracks[p])]]
    /\ UNCHANGED <<start, destination, res, curr_time, duration,
                   duration_in_traffic, ids_known_tracks, txn, writer,
                   before>>
    /\ UNCHANGED <<route, track_duration, schema, runs, recorded, overlapped>>

\* Lines 191-193: more than one row matched; the error is logged, exit.
IntegrityExit(p) ==
    /\ pc[p] = "branch"
    /\ Len(ids_known_tracks[p]) > 1
    /\ Exit(p, "integrity")
    /\ UNCHANGED <<route, track_duration, schema, runs, recorded, overlapped>>

\* Mutant of InsertRoute: a track_id that is in the table already makes the
\* statement a no-op (INSERT OR IGNORE) and the run goes on.
InsertRouteOrIgnore(p) ==
    /\ pc[p] = "insert_route"
    /\ LET stmt == InsertRouteStatement(track_id[p], start[p],
                                        destination[p], duration[p]) IN
       IF ~InsertRouteParses(stmt)
       THEN Exit(p, "syntax")
       ELSE IF writer \notin {0, p}
       THEN Exit(p, "locked")
       ELSE /\ txn' = IF PrimaryKeyFree(route \o txn[p].route,
                                        RouteRow(stmt).track_id)
                      THEN [txn EXCEPT ![p].route = Append(@, RouteRow(stmt))]
                      ELSE txn
            /\ writer' = p
            /\ Goto(p, "commit_route")
            /\ UNCHANGED <<start, destination, res, curr_time, duration,
                           duration_in_traffic, ids_known_tracks, track_id>>
    /\ UNCHANGED <<route, track_duration, schema, runs, recorded, overlapped>>

\* Lines 182-184: the INSERT into route.  It opens the connection's
\* transaction and takes the write lock; while another connection holds the
\* lock it waits, and raises "database is locked" when the wait times out.
\* A track_id that is in the table already violates the PRIMARY KEY.
InsertRoute(p) ==
    /\ pc[p] = "insert_route"
    /\ LET stmt == InsertRouteStatement(track_id[p], start[p],
                                        destination[p], duration[p]) IN
       IF ~InsertRouteParses(stmt)
       THEN Exit(p, "syntax")
       ELSE IF writer \notin {0, p}
       THEN Exit(p, "locked")
       ELSE IF ~PrimaryKeyFree(route \o txn[p].route, RouteRow(stmt).track_id)
       THEN Exit(p, "unique")
       ELSE /\ txn' = [txn EXCEPT ![p].route = Append(@, RouteRow(stmt))]
            /\ writer' = p
            /\ Goto(p, "commit_route")
            /\ UNCHANGED <<start, destination, res, curr_time, duration,
                           duration_in_traffic, ids_known_tracks, track_id>>
    /\ UNCHANGED <<route, track_duration, schema, runs, recorded, overlapped>>

\* Mutant of Commit: a sample equal to a row of the table is not stored.
CommitWithoutDuplicates(p) ==
    /\ route' = route \o txn[p].route
    /\ track_duration' =
          track_duration \o
             SelectSeq(txn[p].track_duration,
                       LAMBDA row : \A i \in 1..Len(track_duration) :
                                       track_duration[i] # row)
    /\ txn' = [txn EXCEPT ![p] = NoTxn]
    /\ writer' = IF writer = p THEN 0 ELSE writer

\* db_con.commit(): the rows of the open transaction reach the file and
\* the write lock is freed.
Commit(p) ==
    /\ route' = route \o txn[p].route
    /\ track_duration' = track_duration \o txn[p].track_duration
    /\ txn' = [txn EXCEPT ![p] = NoTxn]
    /\ writer' = IF writer = p THEN 0 ELSE writer

\* Mutant of CommitRoute: the commit after the INSERT into route is
\* missing; the transaction stays open.
CommitRouteMissing(p) ==
    /\ pc[p] = "commit_route"
    /\ Goto(p, "insert_track")
    /\ UNCHANGED <<route, track_duration, schema, writer, start, destination,
                   res, curr_time, duration, duration_in_traffic,
                   ids_known_tracks, track_id, txn, runs, recorded, overlapped>>

\* Line 185: the commit after the INSERT into route.
CommitRoute(p) ==
    /\ pc[p] = "commit_route"
    /\ Commit(p)
    /\ Goto(p, "insert_track")
    /\ UNCHANGED <<schema, start, destination, res, curr_time, duration,
                   duration_in_traffic, ids_known_tracks, track_id, runs,
                   recorded, overlapped>>

\* Lines 195-199: the INSERT into track_duration.
InsertTrack(p) ==
    /\ pc[p] = "insert_track"
    /\ LET stmt == InsertTrackStatement(track_id[p], curr_time[p],
                                        duration_in_traffic[p]) IN
       IF writer \notin {0, p}
       THEN Exit(p, "locked")
       ELSE /\ txn' = [txn EXCEPT ![p].track_duration =
                                      Append(@, TrackRow(stmt))]
            /\ writer' = p
            /\ Goto(p, "commit_track")
            /\ UNCHANGED <<start, destination, res, curr_time, duration,
                           duration_in_traffic, ids_known_tracks, track_id>>
    /\ UNCHANGED <<route, track_duration, schema, runs, recorded, overlapped>>

\* Lines 200-203: the commit, and the result is logged; the script ends.
CommitTrack(p) ==
    /\ pc[p] = "commit_track"
    /\ Commit(p)
    /\ pc' = [pc EXCEPT ![p] = "done"]
    /\ ProcessEnds(p)
    /\ recorded' = recorded \cup
          { [start |-> FoldCase(start[p]),
             destination |-> FoldCase(destination[p]),
             track_id |-> txn[p].track_duration[i].track_id] :
               i \in 1..Len(txn[p].track_duration) }
    /\ UNCHANGED <<schema, err, runs, overlapped>>

\* Any statement on the database may raise (disk full, I/O error, a file
\* that cannot be written): lines 144-200 catch nothing.
StorePcs == {"schema", "select", "insert_route", "commit_route",
             "insert_track", "commit_track"}

StoreError(p) ==
    /\ \/ pc[p] \in StorePcs
       \/ pc[p] = "branch" /\ Len(ids_known_tracks[p]) = 0
    /\ Exit(p, "store")
    /\ UNCHANGED <<route, track_duration, schema, runs, recorded, overlapped>>

Run(p) ==
    \/ ReadApiKey(p)
    \/ Directions(p)
    \/ Legs(p)
    \/ Connect(p)
    \/ CreateTables(p)
    \/ SelectTracks(p)
    \/ SelectMax(p)
    \/ KnownTrack(p)
    \/ IntegrityExit(p)
    \/ InsertRoute(p)
    \/ CommitRoute(p)
    \/ InsertTrack(p)
    \/ CommitTrack(p)
    \/ StoreError(p)

\* cron starts a run only when the run before it has ended.
StartAlone(p) ==
    /\ \A q \in Procs : Terminated(q)
    /\ runs < MaxRuns
    /\ Start(p)
    /\ UNCHANGED overlapped

\* cron starts a run whether or not the run before it has ended.  One
\* behaviour holds one pair of overlapping runs, at any place in the
\* sequence of its runs.
StartAnyTime(p) ==
    /\ runs < MaxRuns
    /\ (\E q \in Procs : Active(q)) => ~overlapped
    /\ Start(p)
    /\ overlapped' = (overlapped \/ \E q \in Procs : Active(q))

\* Runs that do not overlap.
Next == \E p \in Procs : StartAlone(p) \/ Run(p)
Spec == Init /\ [][Next]_vars

\* Runs that may overlap, interleaved statement by statement.
NextOverlap == \E p \in Procs : StartAnyTime(p) \/ Run(p)
SpecOverlap == Init /\ [][NextOverlap]_vars


(***************************************************************************)
(* Properties.                                                             *)
(***************************************************************************)
\* Two rows of route are for the same pair of addresses, ignoring case.
SamePair(r1, r2) ==
    /\ FoldCase(r1.start) = FoldCase(r2.start)
    /\ FoldCase(r1.destination) = FoldCase(r2.destination)

\* No two rows of route have the same track_id.
NoDuplicateTrackId ==
    \A i, j \in 1..Len(route) :
        route[i].track_id = route[j].track_id => i = j

\* C1: in every state reached by runs that do not overlap, from an empty
\* database, route holds at most one row per pair of addresses (compared
\* ignoring case).
C1_OneRowPerPair ==
    \A i, j \in 1..Len(route) : SamePair(route[i], route[j]) => i = j

\* C2: the samples of runs (not overlapping) whose arguments are equal
\* ignoring case carry the same track_id, and a run whose arguments have
\* been recorded under a track_id before inserts no row into route.
C2_SamePairSameTrack ==
    /\ \A h1, h2 \in recorded :
          (h1.start = h2.start /\ h1.destination = h2.destination)
             => h1.track_id = h2.track_id
    /\ \A p \in Procs :
          pc[p] = "commit_route" =>
             ~ \E h \in recorded :
                  /\ h.start = FoldCase(start[p])
                  /\ h.destination = FoldCase(destination[p])

\* C3: when a run has found no matching row, the row it inserts into route
\* has track_id 0 if route is empty and the largest track_id plus one
\* otherwise, and holds the run's start, destination and duration.
C3_NewRouteRow ==
    \A p \in Procs :
        pc[p] = "commit_route" =>
           /\ Len(txn[p].route) = 1
           /\ txn[p].route[1].start = start[p]
           /\ txn[p].route[1].destination = destination[p]
           /\ txn[p].route[1].duration = duration[p]
           /\ route = <<>> => txn[p].route[1].track_id = 0
           /\ route # <<>> =>
                 /\ \E i \in 1..Len(route) :
                       txn[p].route[1].track_id = route[i].track_id + 1
                 /\ \A i \in 1..Len(route) :
                       txn[p].route[1].track_id > route[i].track_id


\* The step in which process p commits its sample and ends.
SampleCommitted(p) == pc[p] = "commit_track" /\ pc'[p] = "done"

\* The step in which process p ends at an exit() or an exception.
Fails(p) == pc[p] # "failed" /\ pc'[p] = "failed"

\* The row of track_duration that process p records.
SampleOf(p) ==
    [track_id |-> track_id[p], time |-> curr_time[p],
     duration_in_traffic |-> duration_in_traffic[p]]

\* The tables are as process p found them when it started.
Untouched(p) ==
    /\ route' = before[p].route
    /\ track_duration' = before[p].track_duration

\* C4: the step that ends a successful run appends exactly one row, the
\* run's sample, to track_duration, whether or not an equal row is there
\* already; the rows that were there stay as they are, and no other step
\* changes track_duration.
C4_AppendOneSample ==
    [][ /\ \A p \in Procs :
              SampleCommitted(p) =>
                 track_duration' = Append(track_duration, SampleOf(p))
        /\ (~ \E p \in Procs : SampleCommitted(p)) =>
              track_duration' = track_duration ]_vars

\* Two runs have recorded the same track_id, time and duration_in_traffic,
\* and track_duration holds both rows.
C4_DuplicateSamples ==
    /\ Len(track_duration) = 2
    /\ track_duration[1] = track_duration[2]
    /\ \A p \in Procs : pc[p] = "done"

\* C5: a run that fails, at whatever step, leaves route and track_duration
\* as it found them.
C5_AllOrNothing ==
    [][ \A p \in Procs : Fails(p) => Untouched(p) ]_vars

\* C6: a run that finds more than one matching row ends there with the
\* integrity error, and route and track_duration are as the run found them.
C6_IntegrityAbort ==
    [][ \A p \in Procs :
           (/\ pc[p] = "branch"
            /\ Len(ids_known_tracks[p]) > 1
            /\ pc'[p] # pc[p])
           => /\ pc'[p] = "failed"
              /\ err'[p] = "integrity"
              /\ txn[p] = NoTxn
              /\ Untouched(p) ]_vars

\* A run has ended with the integrity error.
C6_IntegrityErrorReached ==
    \E p \in Procs : pc[p] = "failed" /\ err[p] = "integrity"

\* C7: a run whose directions call raises or answers with no route ends at
\* that step; it has opened no connection and made no statement, and the
\* database is as the run found it.  Only a non-empty answer lets the run
\* go on.
C7_NoStoreAction ==
    [][ \A p \in Procs :
           /\ (pc[p] = "directions" /\ Fails(p)) =>
                 /\ err'[p] \in {"upstream", "empty"}
                 /\ Database' = before[p]
                 /\ txn[p] = NoTxn
           /\ (pc[p] = "directions" /\ pc'[p] = "legs") =>
                 Len(res'[p]) > 0 ]_vars

\* A run has ended on an empty answer while route and track_duration hold
\* rows of earlier runs.
C7_EmptyAnswerReached ==
    \E p \in Procs :
        /\ pc[p] = "failed" /\ err[p] = "empty"
        /\ route # <<>> /\ track_duration # <<>>

\* C8 as claimed: a run whose answer carries no duration_in_traffic does
\* not fail at the extraction of the leg's values but goes on to open the
\* database.
C8_MissingTrafficGoesOn ==
    [][ \A p \in Procs :
           (/\ pc[p] = "legs"
            /\ "duration_in_traffic" \notin DOMAIN res[p][1]
            /\ pc'[p] # pc[p])
           => pc'[p] = "connect" ]_vars

\* C8 as amended: a run whose answer carries no duration_in_traffic fails
\* at the extraction of the leg's values (KeyError), before it opens the
\* database: the database is as the run found it.
C8_MissingTrafficFails ==
    [][ \A p \in Procs :
           (/\ pc[p] = "legs"
            /\ "duration_in_traffic" \notin DOMAIN res[p][1]
            /\ pc'[p] # pc[p])
           => /\ pc'[p] = "failed"
              /\ err'[p] = "keyerror"
              /\ Database' = before[p] ]_vars

\* A run has ended with the KeyError.
C8_KeyErrorReached ==
    \E p \in Procs : pc[p] = "failed" /\ err[p] = "keyerror"

\* C9: with overlapping runs, a run that found its pair unknown can end
\* without its row in route: the track_id it computed from the maximum has
\* been inserted by another run in between, the PRIMARY KEY refuses the
\* INSERT and route stays as it is.  Two rows with the same track_id are
\* never reached.
C9_LostRouteRow ==
    /\ []NoDuplicateTrackId
    /\ [][ \A p \in Procs :
              (pc[p] = "insert_route" /\ Fails(p) /\ err'[p] = "unique")
              => /\ ids_known_tracks[p] = <<>>
                 /\ \E i \in 1..Len(route) : route[i].track_id = track_id[p]
                 /\ \A i \in 1..Len(before[p].route) :
                       before[p].route[i].track_id # track_id[p]
                 /\ route' = route ]_vars

\* A run that found its pair unknown has ended at the INSERT into route,
\* refused by the PRIMARY KEY.
C9_RouteRowLost ==
    \E p \in Procs : pc[p] = "failed" /\ err[p] = "unique"

\* C10: when the sample is inserted the route row of a new pair is
\* committed already, and the step that ends a successful run commits the
\* sample: the transaction is closed, the write lock is free, and the
\* sample is in track_duration.
C10_Committed ==
    /\ [](\A p \in Procs :
             pc[p] \in {"insert_track", "commit_track"} =>
                /\ txn[p].route = <<>>
                /\ \E i \in 1..Len(route) : route[i].track_id = track_id[p])
    /\ [][ \A p \in Procs :
              SampleCommitted(p) =>
                 /\ txn'[p] = NoTxn
                 /\ writer' # p
                 /\ \E i \in 1..Len(track_duration') :
                       track_duration'[i] = SampleOf(p) ]_vars

\* The first run has ended successfully: it has created a row of route and
\* recorded a sample.
C10_NewRouteAndSampleDone ==
    /\ runs = 1
    /\ pc[1] = "done"
    /\ Len(route) = 1
    /\ Len(track_duration) = 1

\* The step of process p, whatever it is.
StepOf(p) == pc'[p] # pc[p]

\* C11: no step updates or deletes a row of route: the rows that are there
\* stay as they are, in their places.  route changes only at the commit
\* after the INSERT into route, by the one row of the run's transaction, and
\* the steps of the run that follow leave route alone: a run inserts at most
\* one row.  A run that found exactly one matching row leaves route
\* unchanged at each of its steps, whatever duration and letter case it
\* has observed.
C11_RouteRowsStay ==
    /\ [](\A p \in Procs : Len(txn[p].route) <= 1)
    /\ [][ /\ Len(route') >= Len(route)
           /\ \A i \in 1..Len(route) : route'[i] = route[i]
           /\ route' # route =>
                 \E p \in Procs :
                    /\ pc[p] = "commit_route" /\ pc'[p] = "insert_track"
                    /\ ids_known_tracks[p] = <<>>
                    /\ route' = Append(route, txn[p].route[1])
           /\ \A p \in Procs :
                 (/\ StepOf(p)
                  /\ \/ Len(ids_known_tracks[p]) = 1
                     \/ pc[p] \in {"insert_track", "commit_track"})
                 => route' = route ]_vars

\* A run that found its pair in route is about to commit its sample; the
\* duration it observed and the letter case of its start differ from those
\* of the row, which is as the pair's first run stored it.
C11_KnownRouteOtherValues ==
    \E p \in Procs :
        /\ pc[p] = "commit_track"
        /\ Len(ids_known_tracks[p]) = 1
        /\ route = before[p].route
        /\ \E i \in 1..Len(route) :
              /\ route[i].track_id = track_id[p]
              /\ route[i].duration # duration[p]
              /\ route[i].start # start[p]
              /\ FoldCase(route[i].start) = FoldCase(start[p])

\* The track_ids of the rows of route.
RouteIds == { route[i].track_id : i \in 1..Len(route) }

\* C12: with runs that do not overlap, from an empty database, the track_id
\* of every row of track_duration, and of every sample inserted and not yet
\* committed, is the track_id of a row of route.
C12_SamplesReferenceRoutes ==
    /\ \A i \in 1..Len(track_duration) :
          track_duration[i].track_id \in RouteIds
    /\ \A p \in Procs :
          \A i \in 1..Len(txn[p].track_duration) :
              txn[p].track_duration[i].track_id \in RouteIds

\* Samples of two routes have been recorded, one of them by a run that
\* found its route in the table.
C12_SamplesOfTwoRoutes ==
    /\ Len(route) = 2
    /\ Len(track_duration) = 3
    /\ { track_duration[i].track_id : i \in 1..3 } = {0, 1}

\* The order of the steps of a run: each step is followed by the next one
\* or by the end of the run.
StepOrder ==
    { <<"key", "directions">>, <<"directions", "legs">>,
      <<"legs", "connect">>, <<"connect", "schema">>,
      <<"schema", "select">>, <<"select", "branch">>,
      <<"branch", "insert_route">>, <<"branch", "insert_track">>,
      <<"insert_route", "commit_route">>,
      <<"commit_route", "insert_track">>,
      <<"insert_track", "commit_track">>, <<"commit_track", "done">> }

\* The steps that precede the opening of the database.
BeforeStorePcs == {"key", "directions", "legs", "connect"}

\* C13: a run whose API key cannot be read ends there: it has made no
\* directions call (no answer is held), holds no transaction, and the
\* database is as it found it.  The steps of a run follow one another in
\* the order key, directions, connection, schema, route, sample; a run
\* that has logged an error has ended, and takes no step but the start of
\* the next run; the database changes only in steps that follow the
\* opening of the connection.
C13_StepsInOrder ==
    /\ [](\A p \in Procs : Active(p) => err[p] = "")
    /\ [][ \A p \in Procs :
              /\ (pc[p] = "key" /\ Fails(p)) =>
                    /\ err'[p] = "unreadable"
                    /\ res[p] = <<>>
                    /\ txn[p] = NoTxn
                    /\ Database' = before[p]
              /\ (StepOf(p) /\ Active(p)) =>
                    \/ <<pc[p], pc'[p]>> \in StepOrder
                    \/ pc'[p] = "failed"
              /\ (StepOf(p) /\ Terminated(p)) =>
                    pc'[p] = "key" /\ runs' = runs + 1
              /\ (StepOf(p) /\ pc[p] \in BeforeStorePcs \cup {"idle", "done", "failed"}) =>
                    Database' = Database /\ txn' = txn ]_vars

\* A run has ended at the reading of the API key, after an earlier run has
\* recorded a sample.
C13_KeyUnreadableReached ==
    \E p \in Procs :
        /\ pc[p] = "failed" /\ err[p] = "unreadable"
        /\ route # <<>> /\ track_duration # <<>>

\* C14: with runs that do not overlap, from an empty database, the row
\* inserted as the i-th into route has track_id i - 1: the track_ids of n
\* rows are 0 .. n - 1, without gap and without reuse, in the order in
\* which the rows were inserted.
C14_IdsInOrder ==
    /\ \A i \in 1..Len(route) : route[i].track_id = i - 1
    /\ RouteIds = 0 .. (Len(route) - 1)
    /\ \A p \in Procs :
          pc[p] = "commit_route" => txn[p].route[1].track_id = Len(route)

\* Three runs have inserted three rows into route.
C14_ThreeRoutes ==
    /\ Len(route) = 3
    /\ \A p \in Procs : Terminated(p)

\* C15: with overlapping runs, no two rows of route, committed or held in a
\* transaction, carry the same track_id.  A run that reaches the INSERT
\* into route with a track_id that another run has committed in between
\* ends at that step: route and track_duration stay as they are and the
\* run holds no transaction.
C15_PrimaryKeyHolds ==
    /\ [](\A p \in Procs :
             LET rows == route \o txn[p].route IN
             \A i, j \in 1..Len(rows) :
                 rows[i].track_id = rows[j].track_id => i = j)
    /\ [][ \A p \in Procs :
              (/\ pc[p] = "insert_route"
               /\ track_id[p] \in RouteIds
               /\ StepOf(p))
              => /\ Fails(p)
                 /\ route' = route
                 /\ track_duration' = track_duration
                 /\ txn'[p] = NoTxn ]_vars

\* Of two overlapping runs on an empty database one has recorded its
\* route and its sample; the other has computed the same track_id and has
\* ended at its INSERT into route, leaving no row.
C15_CollisionRefused ==
    /\ Len(route) = 1
    /\ Len(track_duration) = 1
    /\ \E p, q \in Procs :
          /\ pc[p] = "failed" /\ err[p] = "unique"
          /\ pc[q] = "done"

\* The address holds an apostrophe.
HasQuote(address) == \E i \in 1..Len(address) : address[i] = SQ

\* The step in which process p commits its row of route although route
\* holds a row for the same pair of addresses, ignoring case.
CommitsSecondRow(p) ==
    /\ pc[p] = "commit_route" /\ pc'[p] = "insert_track"
    /\ \E i \in 1..Len(route) : SamePair(route[i], txn[p].route[1])

\* C16: two overlapping runs for one unknown pair can both commit a row of
\* route.  Whenever a run (its addresses free of apostrophes) commits a row
\* for a pair that route holds already, no INSERT has failed: the run had
\* found no matching row, every row of the pair has been committed by
\* another run since the run started, the new row carries a track_id of
\* its own, and route holds both rows afterwards.
C16_SecondRowByOverlap ==
    [][ \A p \in Procs :
           (CommitsSecondRow(p) /\ ~HasQuote(start[p])) =>
              /\ ids_known_tracks[p] = <<>>
              /\ \A i \in 1..Len(route) :
                    SamePair(route[i], txn[p].route[1]) =>
                       i > Len(before[p].route)
              /\ txn[p].route[1].track_id \notin RouteIds
              /\ route' = Append(route, txn[p].route[1])
              /\ ~C1_OneRowPerPair' ]_vars

\* Two overlapping runs for the pair (a, b), on an empty database, have
\* both ended successfully; route holds two rows for the pair, under the
\* track_ids 0 and 1, and each run has recorded its sample.
C16_TwoRowsOnePair ==
    /\ runs = 2
    /\ \A p \in Procs : pc[p] = "done"
    /\ Len(route) = 2
    /\ SamePair(route[1], route[2])
    /\ ~HasQuote(route[1].start) /\ ~HasQuote(route[2].start)
    /\ route[1].track_id = 0 /\ route[2].track_id = 1
    /\ Len(track_duration) = 2

\* The row of route is for the addresses of process p, ignoring case.
RowOfRun(row, p) ==
    /\ FoldCase(row.start) = FoldCase(start[p])
    /\ FoldCase(row.destination) = FoldCase(destination[p])

\* When process p started, route held two or more rows for its addresses.
DuplicatedBefore(p) ==
    /\ Active(p)
    /\ \E i, j \in 1..Len(before[p].route) :
          /\ i # j
          /\ RowOfRun(before[p].route[i], p)
          /\ RowOfRun(before[p].route[j], p)

\* C17: a run started when route holds two or more rows for its pair of
\* addresses gets no further than the branch on the number of matching
\* rows: it finds more than one, ends there with the integrity error, and
\* none of its steps changes route or track_duration.  As rows of route
\* are never deleted, this holds for every later run of the pair.
C17_NoSampleForDuplicatedPair ==
    /\ [](\A p \in Procs :
             DuplicatedBefore(p) =>
                /\ pc[p] \in BeforeStorePcs \cup {"schema", "select", "branch"}
                /\ txn[p] = NoTxn
                /\ pc[p] = "branch" => Len(ids_known_tracks[p]) > 1)
    /\ [][ \A p \in Procs :
              (DuplicatedBefore(p) /\ StepOf(p)) =>
                 /\ route' = route
                 /\ track_duration' = track_duration
                 /\ pc[p] = "branch" =>
                       pc'[p] = "failed" /\ err'[p] = "integrity" ]_vars

\* Two overlapping runs have left two rows of route for one pair of
\* addresses (free of apostrophes), and a later run for the pair has ended
\* with the integrity error; track_duration holds the two samples of the
\* first two runs and no more.
C17_LaterRunRefused ==
    /\ runs = 3
    /\ overlapped
    /\ Len(route) = 2
    /\ SamePair(route[1], route[2])
    /\ ~HasQuote(route[1].start) /\ ~HasQuote(route[2].start)
    /\ Len(track_duration) = 2
    /\ \E p \in Procs : pc[p] = "failed" /\ err[p] = "integrity"

=============================================================================
